---- MODULE Spec2Model ----
(***************************************************************************)
(* Model of src/vertical-output.cpp: the lifecycle controller of the       *)
(* vertical NDI output (vctx), the host's output sessions it drives, and   *)
(* the two signal handlers the host invokes asynchronously.                *)
(*                                                                         *)
(* The owner thread runs init/start/stop/deinit one host call at a time    *)
(* (pc is its call stack); the host delivers queued "start"/"stop"         *)
(* signals between any two of those steps.                                 *)
(***************************************************************************)
EXTENDS Integers, Sequences, FiniteSets, TLC

(* ---- bounds ---------------------------------------------------------- *)
MaxSessions == 2      \* output objects the host hands out in one behaviour
MaxPending == 1       \* undelivered signals tolerated when an operation begins
MaxCanvases == 2      \* canvases the frontend enumerates
MaxFires == 1         \* cap of the instrumentation counter

(* ---- value sets ------------------------------------------------------ *)
AITUM_VERTICAL_CANVAS_NAME == "Aitum Vertical"
NoName == "<null>"                       \* obs_canvas_get_name() returned NULL
CanvasNames == {AITUM_VERTICAL_CANVAS_NAME, "Main", NoName}
NoMedia == "null"
MainVideo == "main_video"
MainAudio == "main_audio"
VendorVideo == "vendor_video"
CanvasVideo == "canvas_video"
OtherVideo == "other_video"
Names == {"", "V1"}
Groups == {"G"}
ErrTexts == {"", "device busy"}
SessionIds == 1..MaxSessions
\* only the reserved canvas' video is ever read; it may be missing
Canvases ==
    [name : {AITUM_VERTICAL_CANVAS_NAME}, video : {NoMedia, CanvasVideo}]
        \cup [name : CanvasNames \ {AITUM_VERTICAL_CANVAS_NAME}, video : {OtherVideo}]
CanvasLists == UNION {[1..n -> Canvases] : n \in 0..MaxCanvases}
VendorOutcomes == {"no_proc_handler", "not_called", "null_ptr", "handle"}

VARIABLES
    vctx,              \* struct vertical_output_context
    config,            \* Config::Current()
    sessions,          \* the host's output objects, by id
    pc,                \* call stack of the owner thread, innermost first
    op,                \* the entry point the owner thread called last
    log,               \* host calls made by that entry point, in order
    snap,              \* vctx as it was when that entry point was called
    firesAfterRelease, \* handler invocations for a released session
    canvasApi          \* HAVE_OBS_CANVAS_API of this build

vars == <<vctx, config, sessions, pc, op, log, snap, firesAfterRelease, canvasApi>>

FreeSession ==
    [status |-> "free", video |-> NoMedia, audio |-> NoMedia, active |-> FALSE,
     connStart |-> 0, connStop |-> 0, queue |-> <<>>, err |-> "",
     hostStopped |-> FALSE]

Entry(call, s, x, y) == [call |-> call, s |-> s, x |-> x, y |-> y]

Min(a, b) == IF a < b THEN a ELSE b

(* ---- the host's output API, as this file uses it ---------------------- *)
obs_output_create(ss, s) ==
    [ss EXCEPT ![s] = [FreeSession EXCEPT !.status = "live"]]

obs_output_set_media(ss, s, video, audio) ==
    [ss EXCEPT ![s].video = video, ![s].audio = audio]

\* a successful start activates the output and the host will signal "start"
obs_output_start(ss, s, ok, e) ==
    IF ok
    THEN [ss EXCEPT ![s].active = TRUE, ![s].err = "",
                    ![s].queue = Append(@, "start"), ![s].hostStopped = FALSE]
    ELSE [ss EXCEPT ![s].err = e]

\* stopping an inactive output does nothing; otherwise the host signals "stop"
obs_output_stop(ss, s) ==
    IF ss[s].active
    THEN [ss EXCEPT ![s].active = FALSE, ![s].queue = Append(@, "stop"),
                    ![s].hostStopped = FALSE]
    ELSE [ss EXCEPT ![s].hostStopped = FALSE]

obs_output_get_last_error(ss, s) == ss[s].err

obs_output_release(ss, s) ==
    [ss EXCEPT ![s].status = "released", ![s].active = FALSE,
               ![s].hostStopped = FALSE, ![s].err = ""]

signal_handler_connect(ss, s, sig) ==
    IF sig = "start"
    THEN [ss EXCEPT ![s].connStart = @ + 1]
    ELSE [ss EXCEPT ![s].connStop = @ + 1]

signal_handler_disconnect(ss, s, sig) ==
    IF sig = "start"
    THEN [ss EXCEPT ![s].connStart = IF @ > 0 THEN @ - 1 ELSE 0]
    ELSE [ss EXCEPT ![s].connStop = IF @ > 0 THEN @ - 1 ELSE 0]

Connected(ss, s, sig) ==
    IF sig = "start" THEN ss[s].connStart > 0 ELSE ss[s].connStop > 0

(* ---- the owner thread's call stack ------------------------------------ *)
Idle == pc = <<>>
At(label) == pc # <<>> /\ Head(pc) = label
Return == Tail(pc)
Goto(label) == <<label>> \o Tail(pc)
CallThen(callee, label) == <<callee, label>> \o Tail(pc)

Init ==
    /\ vctx = [is_running |-> FALSE, ndi_name |-> "", ndi_groups |-> "",
               last_error |-> "", output |-> 0]
    /\ config \in [VerticalOutputEnabled : BOOLEAN,
                   VerticalOutputName : Names,
                   VerticalOutputGroups : Groups]
    /\ sessions = [s \in SessionIds |-> FreeSession]
    /\ pc = <<>>
    /\ op = "none"
    /\ log = <<>>
    /\ snap = vctx
    /\ firesAfterRelease = 0
    /\ canvasApi \in BOOLEAN

\* the host calls one of the exposed entry points on the owner thread
Call ==
    /\ Idle
    /\ \A s \in SessionIds : Len(sessions[s].queue) <= MaxPending
    /\ \E f \in {"init", "start", "stop", "deinit", "is_supported"} :
        /\ f \in {"init", "is_supported"} =>
                \E s \in SessionIds : sessions[s].status = "free"
        /\ pc' = <<f>>
        /\ op' = f
    /\ log' = <<>>
    /\ snap' = vctx
    /\ UNCHANGED <<vctx, config, sessions, firesAfterRelease, canvasApi>>

(* ---- vertical_output_stop --------------------------------------------- *)
\* variant: the stop is requested with the media still attached
vertical_output_stop_no_detach ==
    /\ At("stop")
    /\ pc' = IF vctx.is_running THEN Goto("stop_request") ELSE Return
    /\ UNCHANGED <<vctx, config, sessions, op, log, snap, firesAfterRelease, canvasApi>>

\* variant: tests the handle instead of the running flag
vertical_output_stop_unguarded ==
    /\ At("stop")
    /\ IF vctx.output # 0
       THEN /\ sessions' = obs_output_set_media(sessions, vctx.output, NoMedia, NoMedia)
            /\ log' = Append(log, Entry("set_media", vctx.output, NoMedia, NoMedia))
            /\ pc' = Goto("stop_request")
       ELSE /\ pc' = Return
            /\ UNCHANGED <<sessions, log>>
    /\ UNCHANGED <<vctx, config, op, snap, firesAfterRelease, canvasApi>>

vertical_output_stop ==
    /\ At("stop")
    /\ IF vctx.is_running
       THEN /\ sessions' = obs_output_set_media(sessions, vctx.output, NoMedia, NoMedia)
            /\ log' = Append(log, Entry("set_media", vctx.output, NoMedia, NoMedia))
            /\ pc' = Goto("stop_request")
       ELSE /\ pc' = Return
            /\ UNCHANGED <<sessions, log>>
    /\ UNCHANGED <<vctx, config, op, snap, firesAfterRelease, canvasApi>>

\* variant: requests the stop but leaves is_running set
vertical_output_stop_request_keeps_flag ==
    /\ At("stop_request")
    /\ sessions' = obs_output_stop(sessions, vctx.output)
    /\ log' = Append(log, Entry("stop", vctx.output, "", ""))
    /\ pc' = Return
    /\ UNCHANGED <<vctx, config, op, snap, firesAfterRelease, canvasApi>>

vertical_output_stop_request ==
    /\ At("stop_request")
    /\ sessions' = obs_output_stop(sessions, vctx.output)
    /\ log' = Append(log, Entry("stop", vctx.output, "", ""))
    /\ vctx' = [vctx EXCEPT !.is_running = FALSE]
    /\ pc' = Return
    /\ UNCHANGED <<config, op, snap, firesAfterRelease, canvasApi>>

(* ---- video source resolver ------------------------------------------- *)
\* the vendor proc yields a handle only when the proc handler exists, the
\* call is dispatched and the "video" pointer it returns is set
get_aitum_vertical_video(vendor) ==
    IF vendor = "handle" THEN VendorVideo ELSE NoMedia

\* index of the first canvas from i on whose name is the reserved one, or 0
RECURSIVE FindCanvasFrom(_, _)
FindCanvasFrom(cl, i) ==
    IF i > Len(cl) THEN 0
    ELSE IF cl[i].name # NoName /\ cl[i].name = AITUM_VERTICAL_CANVAS_NAME THEN i
    ELSE FindCanvasFrom(cl, i + 1)

find_aitum_vertical_canvas(cl) == FindCanvasFrom(cl, 1)

\* the canvas list is fetched only on builds with the canvas API, and only
\* when the vendor proc gave no handle
EnumeratesCanvases(api, vendor) ==
    api /\ get_aitum_vertical_video(vendor) = NoMedia

\* variant: no main-program fallback
ResolveVideoNoFallback(api, vendor, cl) ==
    LET v1 == get_aitum_vertical_video(vendor)
        t1 == <<Entry("vendor_query", 0, IF v1 # NoMedia THEN "handle" ELSE "none", v1)>>
        useCanvas == EnumeratesCanvases(api, vendor)
        found == find_aitum_vertical_canvas(cl)
        v2 == IF useCanvas /\ found # 0 THEN cl[found].video ELSE v1
        t2 == IF useCanvas
              THEN <<Entry("canvas_enum", 0, IF found # 0 THEN "match" ELSE "no_match", v2)>>
              ELSE <<>>
    IN  [video |-> v2, trace |-> t1 \o t2]

\* the tiers start() consults, in order, and the handle it ends up with
ResolveVideo(api, vendor, cl) ==
    LET v1 == get_aitum_vertical_video(vendor)
        t1 == <<Entry("vendor_query", 0, IF v1 # NoMedia THEN "handle" ELSE "none", v1)>>
        useCanvas == EnumeratesCanvases(api, vendor)
        found == find_aitum_vertical_canvas(cl)
        v2 == IF useCanvas /\ found # 0 THEN cl[found].video ELSE v1
        t2 == IF useCanvas
              THEN <<Entry("canvas_enum", 0, IF found # 0 THEN "match" ELSE "no_match", v2)>>
              ELSE <<>>
        v3 == IF v2 = NoMedia THEN MainVideo ELSE v2
        t3 == IF v2 = NoMedia THEN <<Entry("main_video", 0, "", MainVideo)>> ELSE <<>>
    IN  [video |-> v3, trace |-> t1 \o t2 \o t3]

(* ---- vertical_output_start -------------------------------------------- *)
\* variant: a running output is not stopped before it is started again
vertical_output_start_no_stop_first ==
    /\ At("start")
    /\ pc' = IF vctx.output = 0 THEN Return ELSE Goto("start_bind")
    /\ UNCHANGED <<vctx, config, sessions, op, log, snap, firesAfterRelease, canvasApi>>

vertical_output_start ==
    /\ At("start")
    /\ pc' = IF vctx.output = 0 THEN Return
             ELSE IF vctx.is_running THEN CallThen("stop", "start_bind")
             ELSE Goto("start_bind")
    /\ UNCHANGED <<vctx, config, sessions, op, log, snap, firesAfterRelease, canvasApi>>

\* variant: the start is requested without binding any media
vertical_output_start_bind_skipped ==
    /\ At("start_bind")
    /\ pc' = Goto("start_request")
    /\ UNCHANGED <<vctx, config, sessions, op, log, snap, firesAfterRelease, canvasApi>>

vertical_output_start_bind ==
    /\ At("start_bind")
    /\ \E vendor \in VendorOutcomes :
       \E cl \in IF EnumeratesCanvases(canvasApi, vendor) THEN CanvasLists ELSE {<<>>} :
        LET r == ResolveVideo(canvasApi, vendor, cl) IN
        /\ sessions' = obs_output_set_media(sessions, vctx.output, r.video, MainAudio)
        /\ log' = log \o r.trace \o <<Entry("set_media", vctx.output, r.video, MainAudio)>>
    /\ pc' = Goto("start_request")
    /\ UNCHANGED <<vctx, config, op, snap, firesAfterRelease, canvasApi>>

\* variant: the result of the start request is not kept in is_running
vertical_output_start_request_ignores_result ==
    /\ At("start_request")
    /\ \E ok \in BOOLEAN, e \in ErrTexts :
        LET ss == obs_output_start(sessions, vctx.output, ok, e) IN
        /\ sessions' = ss
        /\ IF ok
           THEN /\ vctx' = [vctx EXCEPT !.is_running = TRUE, !.last_error = ""]
                /\ log' = Append(log, Entry("start", vctx.output, "ok", ""))
                /\ pc' = Return
           ELSE /\ vctx' = [vctx EXCEPT !.is_running = TRUE,
                                        !.last_error = obs_output_get_last_error(ss, vctx.output)]
                /\ log' = Append(log, Entry("start", vctx.output, "failed", e))
                /\ pc' = Goto("start_failed_stop")
    /\ UNCHANGED <<config, op, snap, firesAfterRelease, canvasApi>>

\* variant: a failed start also turns the shared flag off
vertical_output_start_request_writes_flag ==
    /\ At("start_request")
    /\ \E ok \in BOOLEAN, e \in ErrTexts :
        LET ss == obs_output_start(sessions, vctx.output, ok, e) IN
        /\ sessions' = ss
        /\ IF ok
           THEN /\ vctx' = [vctx EXCEPT !.is_running = TRUE, !.last_error = ""]
                /\ log' = Append(log, Entry("start", vctx.output, "ok", ""))
                /\ pc' = Return
                /\ UNCHANGED config
           ELSE /\ vctx' = [vctx EXCEPT !.is_running = FALSE,
                                        !.last_error = obs_output_get_last_error(ss, vctx.output)]
                /\ log' = Append(log, Entry("start", vctx.output, "failed", e))
                /\ pc' = Goto("start_failed_stop")
                /\ config' = [config EXCEPT !.VerticalOutputEnabled = FALSE]
    /\ UNCHANGED <<op, snap, firesAfterRelease, canvasApi>>

vertical_output_start_request ==
    /\ At("start_request")
    /\ \E ok \in BOOLEAN, e \in ErrTexts :
        LET ss == obs_output_start(sessions, vctx.output, ok, e) IN
        /\ sessions' = ss
        /\ IF ok
           THEN /\ vctx' = [vctx EXCEPT !.is_running = TRUE, !.last_error = ""]
                /\ log' = Append(log, Entry("start", vctx.output, "ok", ""))
                /\ pc' = Return
           ELSE /\ vctx' = [vctx EXCEPT !.is_running = FALSE,
                                        !.last_error = obs_output_get_last_error(ss, vctx.output)]
                /\ log' = Append(log, Entry("start", vctx.output, "failed", e))
                /\ pc' = Goto("start_failed_stop")
    /\ UNCHANGED <<config, op, snap, firesAfterRelease, canvasApi>>

\* variant: a failed start is not followed by a stop request
vertical_output_start_failed_no_stop ==
    /\ At("start_failed_stop")
    /\ pc' = Return
    /\ UNCHANGED <<vctx, config, sessions, op, log, snap, firesAfterRelease, canvasApi>>

vertical_output_start_failed_stop ==
    /\ At("start_failed_stop")
    /\ sessions' = obs_output_stop(sessions, vctx.output)
    /\ log' = Append(log, Entry("stop", vctx.output, "", ""))
    /\ pc' = Return
    /\ UNCHANGED <<vctx, config, op, snap, firesAfterRelease, canvasApi>>

LogIdx == 1..Len(log)

(* ---- vertical_output_is_supported ------------------------------------- *)
\* the smallest output object the host has not handed out yet
FreshSession(s) ==
    /\ sessions[s].status = "free"
    /\ \A u \in SessionIds : sessions[u].status = "free" => s <= u

\* the value of the local `supported` once the probe has been started
ProbeStarted == \E i \in LogIdx : log[i].call = "start" /\ log[i].x = "ok"

vertical_output_is_supported ==
    /\ At("is_supported")
    /\ \/ \E s \in SessionIds :
            /\ FreshSession(s)
            /\ sessions' = [obs_output_create(sessions, s) EXCEPT ![s].status = "probe"]
            /\ log' = Append(log, Entry("create", s, "ok", ""))
            /\ pc' = Goto("is_supported_start")
       \/ /\ log' = log \o <<Entry("create", 0, "failed", ""),
                            Entry("return", 0, "false", "")>>
          /\ pc' = Return
          /\ UNCHANGED sessions
    /\ UNCHANGED <<vctx, config, op, snap, firesAfterRelease, canvasApi>>

Probe == log[1].s

vertical_output_is_supported_start ==
    /\ At("is_supported_start")
    /\ \E ok \in BOOLEAN, e \in ErrTexts :
        /\ sessions' = obs_output_start(sessions, Probe, ok, e)
        /\ log' = Append(log, Entry("start", Probe, IF ok THEN "ok" ELSE "failed", e))
    /\ pc' = Goto("is_supported_stop")
    /\ UNCHANGED <<vctx, config, op, snap, firesAfterRelease, canvasApi>>

vertical_output_is_supported_stop ==
    /\ At("is_supported_stop")
    /\ sessions' = obs_output_stop(sessions, Probe)
    /\ log' = Append(log, Entry("stop", Probe, "", ""))
    /\ pc' = Goto("is_supported_release")
    /\ UNCHANGED <<vctx, config, op, snap, firesAfterRelease, canvasApi>>

\* variant: a failed probe start is not reported
vertical_output_is_supported_release_always_true ==
    /\ At("is_supported_release")
    /\ sessions' = obs_output_release(sessions, Probe)
    /\ log' = log \o <<Entry("release", Probe, "", ""),
                       Entry("return", 0, "true", "")>>
    /\ pc' = Return
    /\ UNCHANGED <<vctx, config, op, snap, firesAfterRelease, canvasApi>>

vertical_output_is_supported_release ==
    /\ At("is_supported_release")
    /\ sessions' = obs_output_release(sessions, Probe)
    /\ log' = log \o <<Entry("release", Probe, "", ""),
                       Entry("return", 0, IF ProbeStarted THEN "true" ELSE "false", "")>>
    /\ pc' = Return
    /\ UNCHANGED <<vctx, config, op, snap, firesAfterRelease, canvasApi>>

(* ---- vertical_output_deinit ------------------------------------------- *)
vertical_output_deinit ==
    /\ At("deinit")
    /\ pc' = IF vctx.output # 0 THEN CallThen("stop", "deinit_clear_media") ELSE Return
    /\ UNCHANGED <<vctx, config, sessions, op, log, snap, firesAfterRelease, canvasApi>>

\* variant: the media is not cleared again after stop()
vertical_output_deinit_clear_media_skipped ==
    /\ At("deinit_clear_media")
    /\ pc' = Goto("deinit_disconnect_start")
    /\ UNCHANGED <<vctx, config, sessions, op, log, snap, firesAfterRelease, canvasApi>>

vertical_output_deinit_clear_media ==
    /\ At("deinit_clear_media")
    /\ sessions' = obs_output_set_media(sessions, vctx.output, NoMedia, NoMedia)
    /\ log' = Append(log, Entry("set_media", vctx.output, NoMedia, NoMedia))
    /\ pc' = Goto("deinit_disconnect_start")
    /\ UNCHANGED <<vctx, config, op, snap, firesAfterRelease, canvasApi>>

vertical_output_deinit_disconnect_start ==
    /\ At("deinit_disconnect_start")
    /\ sessions' = signal_handler_disconnect(sessions, vctx.output, "start")
    /\ log' = Append(log, Entry("disconnect", vctx.output, "start", ""))
    /\ pc' = Goto("deinit_disconnect_stop")
    /\ UNCHANGED <<vctx, config, op, snap, firesAfterRelease, canvasApi>>

\* variant: the "stop" handler is left connected
vertical_output_deinit_keeps_stop_handler ==
    /\ At("deinit_disconnect_stop")
    /\ pc' = Goto("deinit_release")
    /\ UNCHANGED <<vctx, config, sessions, op, log, snap, firesAfterRelease, canvasApi>>

vertical_output_deinit_disconnect_stop ==
    /\ At("deinit_disconnect_stop")
    /\ sessions' = signal_handler_disconnect(sessions, vctx.output, "stop")
    /\ log' = Append(log, Entry("disconnect", vctx.output, "stop", ""))
    /\ pc' = Goto("deinit_release")
    /\ UNCHANGED <<vctx, config, op, snap, firesAfterRelease, canvasApi>>

\* variant: teardown also forgets the last error
vertical_output_deinit_release_clears_error ==
    /\ At("deinit_release")
    /\ sessions' = obs_output_release(sessions, vctx.output)
    /\ log' = Append(log, Entry("release", vctx.output, "", ""))
    /\ vctx' = [vctx EXCEPT !.output = 0, !.ndi_name = "", !.ndi_groups = "",
                            !.last_error = ""]
    /\ pc' = Return
    /\ UNCHANGED <<config, op, snap, firesAfterRelease, canvasApi>>

\* variant: the name and groups of the released output are kept
vertical_output_deinit_release_keeps_names ==
    /\ At("deinit_release")
    /\ sessions' = obs_output_release(sessions, vctx.output)
    /\ log' = Append(log, Entry("release", vctx.output, "", ""))
    /\ vctx' = [vctx EXCEPT !.output = 0]
    /\ pc' = Return
    /\ UNCHANGED <<config, op, snap, firesAfterRelease, canvasApi>>

vertical_output_deinit_release ==
    /\ At("deinit_release")
    /\ sessions' = obs_output_release(sessions, vctx.output)
    /\ log' = Append(log, Entry("release", vctx.output, "", ""))
    /\ vctx' = [vctx EXCEPT !.output = 0, !.ndi_name = "", !.ndi_groups = ""]
    /\ pc' = Return
    /\ UNCHANGED <<config, op, snap, firesAfterRelease, canvasApi>>

(* ---- vertical_output_init --------------------------------------------- *)
\* variant: an enabled configuration creates the new output without
\* tearing down the one still held
vertical_output_init_skips_teardown ==
    /\ At("init")
    /\ IF ~config.VerticalOutputEnabled \/ config.VerticalOutputName = ""
       THEN /\ log' = Append(log, Entry("config", 0, "disabled", ""))
            /\ pc' = CallThen("deinit", "init_disabled")
       ELSE /\ log' = Append(log, Entry("config", 0, "enabled", ""))
            /\ pc' = Goto("init_create")
    /\ UNCHANGED <<vctx, config, sessions, op, snap, firesAfterRelease, canvasApi>>

\* variant: a disabled configuration returns without tearing down
vertical_output_init_no_teardown ==
    /\ At("init")
    /\ IF ~config.VerticalOutputEnabled \/ config.VerticalOutputName = ""
       THEN /\ log' = Append(log, Entry("config", 0, "disabled", ""))
            /\ pc' = Goto("init_disabled")
       ELSE /\ log' = Append(log, Entry("config", 0, "enabled", ""))
            /\ pc' = CallThen("deinit", "init_create")
    /\ UNCHANGED <<vctx, config, sessions, op, snap, firesAfterRelease, canvasApi>>

vertical_output_init ==
    /\ At("init")
    /\ IF ~config.VerticalOutputEnabled \/ config.VerticalOutputName = ""
       THEN /\ log' = Append(log, Entry("config", 0, "disabled", ""))
            /\ pc' = CallThen("deinit", "init_disabled")
       ELSE /\ log' = Append(log, Entry("config", 0, "enabled", ""))
            /\ pc' = CallThen("deinit", "init_create")
    /\ UNCHANGED <<vctx, config, sessions, op, snap, firesAfterRelease, canvasApi>>

vertical_output_init_disabled ==
    /\ At("init_disabled")
    /\ pc' = Return
    /\ UNCHANGED <<vctx, config, sessions, op, log, snap, firesAfterRelease, canvasApi>>

\* obs_output_create hands out a fresh output object, or fails
vertical_output_init_create ==
    /\ At("init_create")
    /\ \/ \E s \in SessionIds :
            /\ sessions[s].status = "free"
            /\ \A t \in SessionIds : sessions[t].status = "free" => s <= t
            /\ sessions' = obs_output_create(sessions, s)
            /\ vctx' = [vctx EXCEPT !.output = s]
            /\ log' = Append(log, Entry("create", s, "ok", ""))
            /\ pc' = Goto("init_connect")
       \/ /\ vctx' = [vctx EXCEPT !.output = 0]
          /\ log' = Append(log, Entry("create", 0, "failed", ""))
          /\ pc' = Return
          /\ UNCHANGED sessions
    /\ UNCHANGED <<config, op, snap, firesAfterRelease, canvasApi>>

\* variant: only the "start" handler is connected
vertical_output_init_connect_start_only ==
    /\ At("init_connect")
    /\ sessions' = signal_handler_connect(sessions, vctx.output, "start")
    /\ log' = Append(log, Entry("connect", vctx.output, "start", ""))
    /\ vctx' = [vctx EXCEPT !.ndi_name = config.VerticalOutputName,
                            !.ndi_groups = config.VerticalOutputGroups]
    /\ pc' = Goto("start")
    /\ UNCHANGED <<config, op, snap, firesAfterRelease, canvasApi>>

vertical_output_init_connect ==
    /\ At("init_connect")
    /\ sessions' = signal_handler_connect(
                       signal_handler_connect(sessions, vctx.output, "start"),
                       vctx.output, "stop")
    /\ log' = log \o <<Entry("connect", vctx.output, "start", ""),
                       Entry("connect", vctx.output, "stop", "")>>
    /\ vctx' = [vctx EXCEPT !.ndi_name = config.VerticalOutputName,
                            !.ndi_groups = config.VerticalOutputGroups]
    /\ pc' = Goto("start")
    /\ UNCHANGED <<config, op, snap, firesAfterRelease, canvasApi>>

(* ---- signal handlers, run by the host's threads ----------------------- *)
Pending(s, sig) ==
    /\ sessions[s].status # "free"
    /\ sessions[s].queue # <<>>
    /\ Head(sessions[s].queue) = sig

Fired(s) ==
    IF sessions[s].status = "released"
    THEN Min(firesAfterRelease + 1, MaxFires)
    ELSE firesAfterRelease

\* variant: the handler does not write the shared flag
on_vertical_output_started_silent ==
    \E s \in SessionIds :
        /\ Pending(s, "start")
        /\ Connected(sessions, s, "start")
        /\ sessions' = [sessions EXCEPT ![s].queue = Tail(@)]
        /\ firesAfterRelease' = Fired(s)
        /\ UNCHANGED <<vctx, config, pc, op, log, snap, canvasApi>>

on_vertical_output_started ==
    \E s \in SessionIds :
        /\ Pending(s, "start")
        /\ Connected(sessions, s, "start")
        /\ sessions' = [sessions EXCEPT ![s].queue = Tail(@)]
        /\ config' = [config EXCEPT !.VerticalOutputEnabled = TRUE]
        /\ firesAfterRelease' = Fired(s)
        /\ UNCHANGED <<vctx, pc, op, log, snap, canvasApi>>

\* variant: the handler also marks the context not running
on_vertical_output_stopped_clears_running ==
    \E s \in SessionIds :
        /\ Pending(s, "stop")
        /\ Connected(sessions, s, "stop")
        /\ sessions' = [sessions EXCEPT ![s].queue = Tail(@)]
        /\ config' = [config EXCEPT !.VerticalOutputEnabled = FALSE]
        /\ vctx' = [vctx EXCEPT !.is_running = FALSE]
        /\ firesAfterRelease' = Fired(s)
        /\ UNCHANGED <<pc, op, log, snap, canvasApi>>

on_vertical_output_stopped ==
    \E s \in SessionIds :
        /\ Pending(s, "stop")
        /\ Connected(sessions, s, "stop")
        /\ sessions' = [sessions EXCEPT ![s].queue = Tail(@)]
        /\ config' = [config EXCEPT !.VerticalOutputEnabled = FALSE]
        /\ firesAfterRelease' = Fired(s)
        /\ UNCHANGED <<vctx, pc, op, log, snap, canvasApi>>

\* a signal raised with no handler connected reaches nobody
SignalUnheard ==
    \E s \in SessionIds, sig \in {"start", "stop"} :
        /\ Pending(s, sig)
        /\ ~Connected(sessions, s, sig)
        /\ sessions' = [sessions EXCEPT ![s].queue = Tail(@)]
        /\ UNCHANGED <<vctx, config, pc, op, log, snap, firesAfterRelease, canvasApi>>

(* ---- the rest of the host --------------------------------------------- *)
\* the host ends an active output on its own and signals "stop"
HostStopsOutput ==
    \E s \in SessionIds :
        /\ sessions[s].status = "live"
        /\ sessions[s].active
        /\ Len(sessions[s].queue) <= MaxPending
        /\ sessions' = [obs_output_stop(sessions, s) EXCEPT ![s].hostStopped = TRUE]
        /\ UNCHANGED <<vctx, config, pc, op, log, snap, firesAfterRelease, canvasApi>>

\* the settings dialog rewrites the persisted configuration
ConfigEdited ==
    /\ Idle
    /\ \E c \in [VerticalOutputEnabled : BOOLEAN,
                 VerticalOutputName : Names,
                 VerticalOutputGroups : Groups] :
        /\ c # config
        /\ config' = c
    /\ UNCHANGED <<vctx, sessions, pc, op, log, snap, firesAfterRelease, canvasApi>>

Next ==
    \/ Call
    \/ vertical_output_stop
    \/ vertical_output_stop_request
    \/ vertical_output_start
    \/ vertical_output_start_bind
    \/ vertical_output_start_request
    \/ vertical_output_start_failed_stop
    \/ vertical_output_deinit
    \/ vertical_output_deinit_clear_media
    \/ vertical_output_deinit_disconnect_start
    \/ vertical_output_deinit_disconnect_stop
    \/ vertical_output_deinit_release
    \/ vertical_output_init
    \/ vertical_output_init_disabled
    \/ vertical_output_init_create
    \/ vertical_output_init_connect
    \/ vertical_output_is_supported
    \/ vertical_output_is_supported_start
    \/ vertical_output_is_supported_stop
    \/ vertical_output_is_supported_release
    \/ on_vertical_output_started
    \/ on_vertical_output_stopped
    \/ SignalUnheard
    \/ HostStopsOutput
    \/ ConfigEdited

Spec == Init /\ [][Next]_vars

(* ======================================================================= *)
(* Properties                                                             *)
(* ======================================================================= *)
Made(i, call) == log[i].call = call
Owned == vctx.output

(* C1: deinit() disconnects both signal handlers of a session strictly     *)
(* before it releases that session, under every interleaving of signal     *)
(* delivery with init() and deinit(): no released session has a handler    *)
(* connected, every release in an operation's call sequence comes after    *)
(* the two disconnects of that session, and no handler has ever been       *)
(* invoked for a released session.                                         *)
C1_UnsubscribeBeforeRelease ==
    /\ firesAfterRelease = 0
    /\ \A s \in SessionIds :
        sessions[s].status = "released" =>
            sessions[s].connStart = 0 /\ sessions[s].connStop = 0
    /\ \A i \in LogIdx :
        (Made(i, "release") /\ op # "is_supported") =>
            /\ \E j \in 1..(i - 1) :
                Made(j, "disconnect") /\ log[j].s = log[i].s /\ log[j].x = "start"
            /\ \E j \in 1..(i - 1) :
                Made(j, "disconnect") /\ log[j].s = log[i].s /\ log[j].x = "stop"

\* a session was released while the host still had a signal to raise for it
C1_Witness ==
    \E s \in SessionIds :
        /\ sessions[s].status = "released"
        /\ sessions[s].queue # <<>>
        /\ \E i \in LogIdx : Made(i, "release") /\ log[i].s = s

(* C2: in every reachable state, session == null implies isRunning ==      *)
(* false.                                                                  *)
C2_NoSessionNotRunning ==
    vctx.output = 0 => ~vctx.is_running

\* a running session has just been torn down
C2_Witness ==
    /\ Idle
    /\ op \in {"deinit", "init"}
    /\ snap.is_running
    /\ vctx.output = 0

(* C3: isRunning == true implies session != null and the session has a     *)
(* video and an audio source bound, in every state outside stop()'s own    *)
(* window between detaching the media and clearing the flag.               *)
C3_RunningHasMedia ==
    (~At("stop_request") /\ vctx.is_running) =>
        /\ vctx.output # 0
        /\ sessions[vctx.output].status = "live"
        /\ sessions[vctx.output].video # NoMedia
        /\ sessions[vctx.output].audio # NoMedia

\* start() has returned with the output running
C3_Witness ==
    /\ Idle
    /\ op = "start"
    /\ vctx.is_running
    /\ \E i \in LogIdx : Made(i, "start") /\ log[i].x = "ok"

(* ---- the start attempt of the last operation -------------------------- *)
\* position in log of the session start request, 0 when none was made
StartIdx == IF \E i \in LogIdx : Made(i, "start")
            THEN CHOOSE i \in LogIdx : Made(i, "start")
            ELSE 0
StartReturned == Idle /\ op \in {"start", "init"} /\ StartIdx # 0
StartFailed == StartReturned /\ log[StartIdx].x = "failed"
StartSucceeded == StartReturned /\ log[StartIdx].x = "ok"
StopRequestedAfterStart ==
    \E j \in (StartIdx + 1)..Len(log) : Made(j, "stop") /\ log[j].s = log[StartIdx].s

(* C4 as stated: after a start attempt that fails with reason text R,      *)
(* isRunning is false, lastError equals R, the session was sent a stop     *)
(* request after the failed start, and the session has no media bound      *)
(* when start() returns.                                                   *)
C4_FailedStartLeavesNoMedia ==
    StartFailed =>
        /\ ~vctx.is_running
        /\ vctx.last_error = log[StartIdx].y
        /\ StopRequestedAfterStart
        /\ sessions[Owned].video = NoMedia
        /\ sessions[Owned].audio = NoMedia

(* C4 as amended: after a start attempt that fails with reason text R,     *)
(* isRunning is false, lastError equals R, the session was sent a stop     *)
(* request after the failed start, and the video and audio bound for the   *)
(* attempt are still bound when start() returns.                           *)
C4_FailedStartKeepsMedia ==
    StartFailed =>
        /\ ~vctx.is_running
        /\ vctx.last_error = log[StartIdx].y
        /\ StopRequestedAfterStart
        /\ Made(StartIdx - 1, "set_media")
        /\ log[StartIdx - 1].x # NoMedia
        /\ sessions[Owned].video = log[StartIdx - 1].x
        /\ sessions[Owned].audio = MainAudio
        /\ ~sessions[Owned].active

\* a start has failed with "device busy" and start() has returned
C4_Witness ==
    /\ StartFailed
    /\ log[StartIdx].y = "device busy"
    /\ vctx.last_error = "device busy"

(* C5: lastError is empty right after a start attempt that succeeded and   *)
(* non-empty right after one that failed, whatever error text the session  *)
(* reports; and stop() never changes lastError.                            *)
C5_LastErrorTellsOutcome ==
    /\ StartSucceeded => vctx.last_error = ""
    /\ StartFailed => vctx.last_error # ""
    /\ (Idle /\ op = "stop") => vctx.last_error = snap.last_error

(* C6: start() on a running output first stops the session in full (media  *)
(* detached, stop requested, isRunning false) and then binds and starts    *)
(* the same session once; at no point are two sessions bound to media or   *)
(* two sessions started.                                                   *)
C6_RestartStopsFirst ==
    /\ Cardinality({s \in SessionIds : sessions[s].video # NoMedia}) <= 1
    /\ Cardinality({s \in SessionIds : sessions[s].status # "probe" /\ sessions[s].active}) <= 1
    /\ (Idle /\ op = "start" /\ snap.is_running) =>
        /\ Len(log) >= 4
        /\ log[1] = Entry("set_media", snap.output, NoMedia, NoMedia)
        /\ log[2] = Entry("stop", snap.output, "", "")
        /\ StartIdx > 3
        /\ Made(StartIdx - 1, "set_media")
        /\ log[StartIdx - 1].x # NoMedia
        /\ Cardinality({i \in LogIdx : Made(i, "start")}) = 1
        /\ \A i \in LogIdx : log[i].s \in {0, snap.output}
        /\ vctx.output = snap.output
    /\ (At("start_bind") /\ op = "start" /\ snap.is_running) =>
        /\ ~vctx.is_running
        /\ sessions[Owned].video = NoMedia
        /\ sessions[Owned].audio = NoMedia

\* a running output was restarted and is running again
C6_Witness ==
    /\ Idle
    /\ op = "start"
    /\ snap.is_running
    /\ vctx.is_running

(* C7: stop() called while isRunning is false leaves every OutputContext   *)
(* field unchanged and makes no call on the session, whether or not a      *)
(* session exists.                                                         *)
C7_StopWhenNotRunningIsNoOp ==
    (Idle /\ op = "stop" /\ ~snap.is_running) =>
        /\ vctx = snap
        /\ log = <<>>

\* stop() returned on a session left over from a failed start
C7_Witness ==
    /\ Idle
    /\ op = "stop"
    /\ ~snap.is_running
    /\ snap.output # 0
    /\ snap.last_error # ""

(* ---- the resolution made by the last operation ------------------------ *)
Consulted(tier) == \E i \in LogIdx : Made(i, tier)
VendorGaveHandle == \E i \in LogIdx : Made(i, "vendor_query") /\ log[i].x = "handle"
VendorGaveNothing == \E i \in LogIdx : Made(i, "vendor_query") /\ log[i].x = "none"
CanvasMatched == \E i \in LogIdx : Made(i, "canvas_enum") /\ log[i].x = "match"
CanvasGaveHandle == \E i \in LogIdx : Made(i, "canvas_enum") /\ log[i].y # NoMedia
HasBound == \E i \in LogIdx : Made(i, "set_media") /\ log[i].y = MainAudio
BoundVideo == log[CHOOSE i \in LogIdx : Made(i, "set_media") /\ log[i].y = MainAudio].x
TiersInOrder ==
    \A i, j \in LogIdx :
        \/ Made(i, "vendor_query") /\ Made(j, "canvas_enum")
        \/ Made(i, "vendor_query") /\ Made(j, "main_video")
        \/ Made(i, "canvas_enum") /\ Made(j, "main_video")
        => i < j

(* C8 as stated: the resolver consults its tiers in order and stops at     *)
(* the first success: a vendor handle means neither canvas enumeration     *)
(* nor the main-video accessor is consulted; with no vendor handle, a      *)
(* canvas bearing the reserved name means the main-video accessor is not   *)
(* consulted; with neither, the main video is returned; the handle bound   *)
(* to the session is never null.                                           *)
C8_MatchingCanvasSkipsMain ==
    HasBound =>
        /\ TiersInOrder
        /\ VendorGaveHandle =>
            ~Consulted("canvas_enum") /\ ~Consulted("main_video")
        /\ (VendorGaveNothing /\ CanvasMatched) => ~Consulted("main_video")
        /\ (VendorGaveNothing /\ ~CanvasMatched) => BoundVideo = MainVideo
        /\ BoundVideo # NoMedia

(* C8 as amended: the resolver consults its tiers in order and stops at    *)
(* the first tier that yields a handle: a vendor handle is bound without   *)
(* consulting canvas enumeration or the main-video accessor; with no       *)
(* vendor handle, a canvas bearing the reserved name that yields a video   *)
(* handle is bound without consulting the main-video accessor; when        *)
(* neither tier yields a handle (no such canvas, a canvas without video,   *)
(* or a build without the canvas API) the main video is bound; the handle  *)
(* bound to the session is never null.                                     *)
C8_FirstHandleWins ==
    HasBound =>
        /\ TiersInOrder
        /\ Consulted("vendor_query")
        /\ VendorGaveHandle =>
            /\ ~Consulted("canvas_enum") /\ ~Consulted("main_video")
            /\ BoundVideo = VendorVideo
        /\ (VendorGaveNothing /\ CanvasGaveHandle) =>
            /\ ~Consulted("main_video")
            /\ BoundVideo = CanvasVideo
        /\ (VendorGaveNothing /\ ~CanvasGaveHandle) =>
            /\ Consulted("main_video")
            /\ BoundVideo = MainVideo
        /\ (VendorGaveNothing /\ canvasApi) => Consulted("canvas_enum")
        /\ ~canvasApi => ~Consulted("canvas_enum")
        /\ BoundVideo # NoMedia

\* the reserved canvas supplied the video the session is bound to
C8_Witness ==
    /\ HasBound
    /\ VendorGaveNothing
    /\ CanvasGaveHandle
    /\ vctx.output # 0
    /\ sessions[vctx.output].video = CanvasVideo

(* C9: init() with a configuration that is disabled or has an empty name   *)
(* creates no session, tears down any session that exists, and returns     *)
(* with session == null and isRunning == false, from any prior state.      *)
C9_DisabledInitTearsDown ==
    (Idle /\ op = "init" /\ log # <<>> /\ log[1].x = "disabled") =>
        /\ vctx.output = 0
        /\ ~vctx.is_running
        /\ ~Consulted("create")
        /\ ~Consulted("start")
        /\ snap.output # 0 =>
            /\ sessions[snap.output].status = "released"
            /\ sessions[snap.output].video = NoMedia
            /\ \E i \in LogIdx : Made(i, "release") /\ log[i].s = snap.output

\* a disabled init() has torn down a running session
C9_Witness ==
    /\ Idle
    /\ op = "init"
    /\ log # <<>>
    /\ log[1].x = "disabled"
    /\ snap.is_running
    /\ vctx.output = 0

(* ---- a signal reaching its handler ------------------------------------ *)
Delivered(s, sig) ==
    /\ Pending(s, sig)
    /\ Connected(sessions, s, sig)
    /\ sessions'[s].queue = Tail(sessions[s].queue)

InitStartedOutput ==
    /\ Idle
    /\ op = "init"
    /\ \E i \in LogIdx : Made(i, "create") /\ log[i].x = "ok"
    /\ StartSucceeded

(* C10: init() with an enabled, named configuration whose session          *)
(* creation and start both succeed returns with isRunning == true and      *)
(* lastError == ""; delivery of a start-confirmed signal to the connected  *)
(* handler leaves VerticalOutputEnabled true, and delivery of a            *)
(* stop-confirmed signal to the connected handler leaves it false.         *)
C10_InitSuccessAndSignals ==
    /\ [](InitStartedOutput =>
            /\ vctx.is_running
            /\ vctx.last_error = ""
            /\ vctx.output # 0
            /\ vctx.ndi_name # "")
    /\ [][\A s \in SessionIds :
            /\ Delivered(s, "start") => config'.VerticalOutputEnabled
            /\ Delivered(s, "stop") => ~config'.VerticalOutputEnabled]_vars

\* init() started the output and its start-confirmed signal has been handled
C10_Witness ==
    /\ InitStartedOutput
    /\ sessions[vctx.output].active
    /\ sessions[vctx.output].queue = <<>>
    /\ config.VerticalOutputEnabled
    /\ firesAfterRelease = 0

(* ---- quiescence ------------------------------------------------------- *)
NoSignalPending == \A s \in SessionIds : sessions[s].queue = <<>>
SessionRunning == vctx.output # 0 /\ sessions[vctx.output].active
OwnerStep == pc' # pc

(* C11 as stated: with no operation in progress and no signal pending      *)
(* delivery, VerticalOutputEnabled is true exactly when the session is     *)
(* running; stated here for the states that follow a start attempt,        *)
(* failed starts included.                                                 *)
C11_FlagMatchesRunning ==
    (StartReturned /\ NoSignalPending) =>
        (config.VerticalOutputEnabled <=> SessionRunning)

(* C11 as amended: no step of init/start/stop/deinit/isSupported writes    *)
(* VerticalOutputEnabled, a failed start included; the flag changes only   *)
(* when a handler is delivered a signal (true on start-confirmed, false    *)
(* on stop-confirmed) or when the configuration is edited between          *)
(* operations, so after a failed start it keeps the value it had.          *)
C11_OnlyHandlersWriteFlag ==
    [][/\ OwnerStep => config' = config
       /\ config'.VerticalOutputEnabled # config.VerticalOutputEnabled =>
            \/ \E s \in SessionIds :
                \/ Delivered(s, "start") /\ config'.VerticalOutputEnabled
                \/ Delivered(s, "stop") /\ ~config'.VerticalOutputEnabled
            \/ Idle /\ pc' = pc /\ sessions' = sessions]_vars

\* a start has failed, nothing is pending, and the flag still says enabled
C11_Witness ==
    /\ StartFailed
    /\ NoSignalPending
    /\ config.VerticalOutputEnabled
    /\ ~SessionRunning

(* C12: isSupported() returns true if and only if its probe session was    *)
(* created and the start of that session succeeded; it leaves every        *)
(* OutputContext field unchanged; and a probe session that was created     *)
(* has been stopped and then released when isSupported() returns.          *)
C12_ProbeIsSelfContained ==
    /\ op = "is_supported" => vctx = snap
    /\ (Idle /\ op = "is_supported") =>
        /\ log # <<>>
        /\ Made(1, "create")
        /\ Made(Len(log), "return")
        /\ log[Len(log)].x = "true" <=>
            /\ log[1].x = "ok"
            /\ \E i \in LogIdx : Made(i, "start") /\ log[i].x = "ok"
        /\ log[1].x = "ok" =>
            /\ Len(log) = 5
            /\ Made(2, "start") /\ Made(3, "stop") /\ Made(4, "release")
            /\ \A i \in 1..4 : log[i].s = log[1].s
            /\ sessions[log[1].s].status = "released"
            /\ ~sessions[log[1].s].active
        /\ \A s \in SessionIds : sessions[s].status # "probe"

\* a probe whose start failed has been torn down and reported unsupported
C12_Witness ==
    /\ Idle
    /\ op = "is_supported"
    /\ Len(log) = 5
    /\ log[2].x = "failed"
    /\ log[5].x = "false"
    /\ sessions[log[1].s].status = "released"
    /\ snap.is_running

(* C13: init() with an enabled, named configuration whose session          *)
(* creation fails returns, from any prior state, with session == null,     *)
(* isRunning == false, outputName and outputGroups empty, no signal        *)
(* handler subscribed and no start attempt made.                           *)
C13_CreationFailureLeavesUninitialized ==
    (Idle /\ op = "init" /\ \E i \in LogIdx : Made(i, "create") /\ log[i].x = "failed") =>
        /\ vctx.output = 0
        /\ ~vctx.is_running
        /\ vctx.ndi_name = ""
        /\ vctx.ndi_groups = ""
        /\ ~Consulted("connect")
        /\ ~Consulted("start")
        /\ \A s \in SessionIds :
            sessions[s].connStart = 0 /\ sessions[s].connStop = 0

\* creation failed in an init() that found a running session
C13_Witness ==
    /\ Idle
    /\ op = "init"
    /\ \E i \in LogIdx : Made(i, "create") /\ log[i].x = "failed"
    /\ snap.is_running
    /\ snap.ndi_name # ""
    /\ vctx.ndi_name = ""

(* C14: whenever a session owned by OutputContext is released, by          *)
(* deinit() called directly or from init(), its video and audio have been  *)
(* set to none before the release, also when the session is left over      *)
(* from a failed start with isRunning already false.                       *)
C14_MediaClearedBeforeRelease ==
    /\ \A s \in SessionIds :
        sessions[s].status = "released" =>
            sessions[s].video = NoMedia /\ sessions[s].audio = NoMedia
    /\ At("deinit_release") =>
        /\ sessions[Owned].video = NoMedia
        /\ sessions[Owned].audio = NoMedia
    /\ \A i \in LogIdx :
        (Made(i, "release") /\ op # "is_supported") =>
            \E j \in 1..(i - 1) :
                /\ log[j] = Entry("set_media", log[i].s, NoMedia, NoMedia)
                /\ \A k \in (j + 1)..(i - 1) : ~Made(k, "set_media")

\* deinit() released a session that was not running: stop() was a no-op
\* and the clearing was deinit()'s own
C14_Witness ==
    /\ Idle
    /\ op = "deinit"
    /\ snap.output # 0
    /\ ~snap.is_running
    /\ sessions[snap.output].status = "released"
    /\ log[1] = Entry("set_media", snap.output, NoMedia, NoMedia)
    /\ Made(2, "disconnect")

(* C15: stop() called while isRunning is true sets the session's video     *)
(* and audio to none strictly before it requests the stop, and returns     *)
(* with isRunning false and no media bound to the session.                 *)
C15_DetachBeforeStop ==
    /\ At("stop_request") =>
        /\ sessions[Owned].video = NoMedia
        /\ sessions[Owned].audio = NoMedia
        /\ log # <<>>
        /\ log[Len(log)] = Entry("set_media", Owned, NoMedia, NoMedia)
    /\ (Idle /\ op = "stop" /\ snap.is_running) =>
        /\ log = <<Entry("set_media", snap.output, NoMedia, NoMedia),
                   Entry("stop", snap.output, "", "")>>
        /\ ~vctx.is_running
        /\ vctx.output = snap.output
        /\ sessions[Owned].video = NoMedia
        /\ sessions[Owned].audio = NoMedia
        /\ ~sessions[Owned].active

\* stop() has stopped an output that was running and active
C15_Witness ==
    /\ Idle
    /\ op = "stop"
    /\ snap.is_running
    /\ sessions[Owned].queue # <<>>
    /\ sessions[Owned].queue[Len(sessions[Owned].queue)] = "stop"

(* C16: lastError is modified only by a start attempt that reaches the     *)
(* session's start request: stop(), deinit(), isSupported(), an init()     *)
(* that stops at a disabled configuration, an empty name or a creation     *)
(* failure, and start() with no session all leave it as it was.            *)
C16_OnlyStartWritesLastError ==
    (op \in {"none", "is_supported"} \/ StartIdx = 0) =>
        vctx.last_error = snap.last_error

\* a session with an error on record was torn down and the error is kept
C16_Witness ==
    /\ Idle
    /\ op \in {"deinit", "init"}
    /\ StartIdx = 0
    /\ snap.output # 0
    /\ vctx.output = 0
    /\ vctx.last_error = "device busy"

(* C17: each signal handler, whenever it fires and whatever the owner      *)
(* thread is doing, writes only VerticalOutputEnabled (true for            *)
(* start-confirmed, false for stop-confirmed) and leaves isRunning,        *)
(* outputName, outputGroups, lastError and session, the rest of the        *)
(* configuration and the owner thread's progress unchanged.                *)
C17_HandlersWriteOnlyFlag ==
    [][\A s \in SessionIds : \A sig \in {"start", "stop"} :
        Delivered(s, sig) =>
            /\ vctx' = vctx
            /\ config' = [config EXCEPT !.VerticalOutputEnabled = (sig = "start")]
            /\ pc' = pc
            /\ log' = log
            /\ snap' = snap]_vars

\* the stop handler has run in the middle of an init() that read the flag
\* as enabled
C17_Witness ==
    /\ ~Idle
    /\ op = "init"
    /\ log # <<>>
    /\ log[1].x = "enabled"
    /\ ~config.VerticalOutputEnabled
    /\ snap.is_running

(* C18 as stated: isRunning is true if and only if the current session     *)
(* has been started successfully and has not since been stopped, whether   *)
(* by stop(), by deinit() or by the host stopping the session itself.      *)
C18_RunningIffSessionActive ==
    Idle => (vctx.is_running <=> SessionRunning)

(* C18 as amended: isRunning is true if and only if the current session    *)
(* has been started successfully and neither stop() nor deinit() has       *)
(* stopped it since; a session the host stops on its own (stop-confirmed   *)
(* without stop()) leaves isRunning true; a session that is active always  *)
(* has isRunning true.                                                     *)
C18_RunningUntilOwnerStops ==
    /\ SessionRunning => vctx.is_running
    /\ vctx.is_running <=>
        /\ vctx.output # 0
        /\ sessions[vctx.output].active \/ sessions[vctx.output].hostStopped

\* the host stopped the output, the stop was confirmed, and isRunning is
\* still true
C18_Witness ==
    /\ Idle
    /\ vctx.is_running
    /\ ~SessionRunning
    /\ sessions[vctx.output].hostStopped
    /\ NoSignalPending
    /\ ~config.VerticalOutputEnabled

(* C19: every session init() creates is released exactly once and a new    *)
(* one is created only after the previous one has been released: the       *)
(* only unreleased session of OutputContext is the one it holds, no        *)
(* session is live when init() creates one, and deinit() releases only a   *)
(* live session.                                                           *)
C19_OneSessionAtATime ==
    /\ \A s \in SessionIds : sessions[s].status = "live" <=> s = vctx.output
    /\ Cardinality({s \in SessionIds : sessions[s].status = "live"}) <= 1
    /\ At("init_create") => \A s \in SessionIds : sessions[s].status # "live"
    /\ At("deinit_release") => sessions[vctx.output].status = "live"
    /\ \A i, j \in LogIdx :
        (Made(i, "release") /\ Made(j, "release") /\ log[i].s = log[j].s) => i = j

\* a second init() replaced the session of the first
C19_Witness ==
    /\ Idle
    /\ op = "init"
    /\ snap.output # 0
    /\ vctx.output # 0
    /\ vctx.output # snap.output
    /\ sessions[snap.output].status = "released"

(* C20: whenever no init() or deinit() is in progress, the start and the   *)
(* stop handler are each registered exactly once on the current session    *)
(* when session != null, and on no other session; no handler is ever       *)
(* registered twice.                                                       *)
C20_SubscribedIffSession ==
    /\ \A s \in SessionIds : sessions[s].connStart <= 1 /\ sessions[s].connStop <= 1
    /\ (Idle \/ op \notin {"init", "deinit"}) =>
        \A s \in SessionIds :
            /\ sessions[s].connStart = (IF s = vctx.output THEN 1 ELSE 0)
            /\ sessions[s].connStop = (IF s = vctx.output THEN 1 ELSE 0)

\* the session of a second init() is subscribed, the one it replaced is not
C20_Witness ==
    /\ Idle
    /\ op = "init"
    /\ snap.output # 0
    /\ vctx.output # 0
    /\ sessions[vctx.output].connStart = 1
    /\ sessions[vctx.output].connStop = 1
    /\ sessions[snap.output].connStart = 0
====
